---- MODULE Spec2Model ----
(***************************************************************************)
(* CrossEntropyLoss (nemo/collections/nlp/modules/crossentropy_loss.py).   *)
(*                                                                         *)
(* Tensors are nested sequences: a rank-1 tensor is a sequence of numbers, *)
(* a rank-2 tensor a sequence of rows, a rank-3 tensor a sequence of       *)
(* rank-2 tensors.  Class indices (labels, arg-max results) are 0-based as *)
(* in the source; sequence positions are 1-based.                          *)
(*                                                                         *)
(* A loss value is kept exact and symbolic.  The cross-entropy of one      *)
(* score vector x against class y is  ln(SUM_j exp(x[j] - x[y]));  it is   *)
(* represented by the term [w, d] with d[j] = x[j] - x[y] and w the class  *)
(* weight of y.  A kernel result is the reduction mode together with the   *)
(* sequence of terms it reduces, in order.                                 *)
(***************************************************************************)
EXTENDS Integers, Sequences, FiniteSets, TLC

\* Largest number of rows of the flattened logits (product of the leading axes).
MaxN == 4
\* Largest number of classes (size of the last axis of the logits).
MaxC == 2

\* Ranks of the logits tensor the module is configured for.
Ranks == {2, 3}
Reductions == {"mean", "sum", "none"}
\* Mask entries of a non-boolean mask are kept in tenths: 4 is 0.4, 10 is 1.
\* The literal 0.5 of `loss_mask > 0.5`, in tenths.
MaskThreshold == 5

----------------------------------------------------------------------------
\* Sequence helpers.

RECURSIVE Concat(_)
\* The concatenation of a sequence of sequences, in order.
Concat(ss) == IF ss = <<>> THEN <<>> ELSE Head(ss) \o Concat(Tail(ss))

\* Select without the filtering: every entry is kept.
SelectIgnoringMask(xs, mask) == xs

RECURSIVE Select(_, _)
\* xs[mask] for a boolean mask of the same length: the entries of xs whose mask
\* entry is true, in order.
Select(xs, mask) ==
    IF xs = <<>> THEN <<>>
    ELSE (IF Head(mask) THEN <<Head(xs)>> ELSE <<>>) \o Select(Tail(xs), Tail(mask))

\* None, the default of weight and of loss_mask.
NoneTensor == [kind |-> "none", dtype |-> "none", rank |-> 0, v |-> <<>>]

Tensor(dtype, rank, v) == [kind |-> "tensor", dtype |-> dtype, rank |-> rank, v |-> v]

\* A Python list (the documented type of the weight argument).
PyList(v) == [kind |-> "list", dtype |-> "float", rank |-> 1, v |-> v]

\* Tensor.shape, for the ranks in use.
Shape(t) ==
    CASE t.rank = 1 -> <<Len(t.v)>>
      [] t.rank = 2 -> <<Len(t.v), IF t.v = <<>> THEN 0 ELSE Len(t.v[1])>>
      [] t.rank = 3 -> <<Len(t.v),
                         IF t.v = <<>> THEN 0 ELSE Len(t.v[1]),
                         IF t.v = <<>> \/ t.v[1] = <<>> THEN 0 ELSE Len(t.v[1][1])>>

----------------------------------------------------------------------------
\* The tensor primitives forward uses.  A primitive that can raise returns an
\* outcome: [ok |-> TRUE, val |-> ...] or [ok |-> FALSE, err |-> <exception>].

Ok(val) == [ok |-> TRUE, err |-> "", val |-> val]
Raise(err) == [ok |-> FALSE, err |-> err, val |-> NoneTensor]

RECURSIVE MergeLeading(_, _)
\* The nested data v with its first k+1 axes merged into one, row-major.
MergeLeading(v, k) == IF k = 0 THEN v ELSE MergeLeading(Concat(v), k - 1)

\* flatten that collapses a rank-2 tensor column by column.
flattenColumnMajor(t, end_dim) ==
    LET last == t.rank + end_dim
    IN  IF t.rank = 2 /\ last = 1 /\ t.v # <<>>
        THEN Tensor(t.dtype, 1,
                    [i \in 1..(Len(t.v) * Len(t.v[1])) |->
                        t.v[((i - 1) % Len(t.v)) + 1][((i - 1) \div Len(t.v)) + 1]])
        ELSE Tensor(t.dtype, t.rank - last, MergeLeading(t.v, last))

\* torch.flatten(t, start_dim=0, end_dim=end_dim), end_dim = -1 or -2.
flatten(t, end_dim) ==
    LET last == t.rank + end_dim
    IN  Tensor(t.dtype, t.rank - last, MergeLeading(t.v, last))

\* The comparison with >= in place of >.
GreaterOrEqualHalf(t) ==
    Tensor("bool", t.rank,
           IF t.rank = 1
           THEN [i \in 1..Len(t.v) |-> t.v[i] >= MaskThreshold]
           ELSE [i \in 1..Len(t.v) |->
                    [k \in 1..Len(t.v[i]) |-> t.v[i][k] >= MaskThreshold]])

\* loss_mask > 0.5, element-wise, for a mask of rank 1 or 2.
GreaterThanHalf(t) ==
    Tensor("bool", t.rank,
           IF t.rank = 1
           THEN [i \in 1..Len(t.v) |-> t.v[i] > MaskThreshold]
           ELSE [i \in 1..Len(t.v) |->
                    [k \in 1..Len(t.v[i]) |-> t.v[i][k] > MaskThreshold]])

\* t[mask] for a rank-1 boolean mask: the mask must be as long as axis 0 of t.
BoolIndex(t, mask) ==
    IF Len(mask.v) # Len(t.v)
    THEN Raise("IndexError")
    ELSE Ok(Tensor(t.dtype, t.rank, Select(t.v, mask.v)))

\* An arg-max that always answers class 0.
ArgMaxRowFirstClass(xs) == 0

\* The 0-based position of the first maximal entry of a non-empty vector.
ArgMaxRow(xs) ==
    (CHOOSE j \in 1..Len(xs) :
        /\ \A k \in 1..Len(xs) : xs[k] <= xs[j]
        /\ \A k \in 1..(j - 1) : xs[k] < xs[j]) - 1

\* torch.argmax(t, dim=-1) for t of rank 2 or 3.
argmax(t) ==
    Tensor("long", t.rank - 1,
           IF t.rank = 2
           THEN [i \in 1..Len(t.v) |-> ArgMaxRow(t.v[i])]
           ELSE [i \in 1..Len(t.v) |->
                    [k \in 1..Len(t.v[i]) |-> ArgMaxRow(t.v[i][k])]])

----------------------------------------------------------------------------
\* torch.nn.CrossEntropyLoss, the kernel behind self._criterion.

\* The loss term of score vector xs against class y (0-based).
Term(weight, xs, y) ==
    [w |-> IF weight.kind = "none" THEN 1 ELSE weight.v[y + 1],
     d |-> [j \in 1..Len(xs) |-> xs[j] - xs[y + 1]]]

\* A kernel result: the reduction, the shape of the value returned and the
\* terms reduced.  mean and sum return a scalar (shape <<>>).
Loss(reduction, shape, terms) ==
    [ok |-> TRUE, err |-> "",
     val |-> [reduction |-> reduction,
              shape |-> IF reduction = "none" THEN shape ELSE <<>>,
              terms |-> terms]]

\* input [N, C] against target [N].
CrossEntropy2D(weight, reduction, input, target) ==
    LET n == Len(input.v)
        c == Shape(input)[2]
    IN  IF target.rank # 1 \/ Len(target.v) # n
        THEN Raise("ValueError")
        ELSE IF weight.kind # "none" /\ Len(weight.v) # c
        THEN Raise("RuntimeError")
        ELSE IF \E i \in 1..n : target.v[i] \notin 0..(c - 1)
        THEN Raise("IndexError")
        ELSE Loss(reduction, <<n>>,
                  [i \in 1..n |-> Term(weight, input.v[i], target.v[i])])

\* input [N, C, D] against target [N, D]: the class axis is axis 1.
CrossEntropyND(weight, reduction, input, target) ==
    LET n == Shape(input)[1]
        c == Shape(input)[2]
        d == Shape(input)[3]
        scores(i, k) == [j \in 1..c |-> input.v[i][j][k]]
    IN  IF target.rank # 2 \/ Shape(target) # <<n, d>>
        THEN Raise("ValueError")
        ELSE IF weight.kind # "none" /\ Len(weight.v) # c
        THEN Raise("RuntimeError")
        ELSE IF \E i \in 1..n, k \in 1..d : target.v[i][k] \notin 0..(c - 1)
        THEN Raise("IndexError")
        ELSE Loss(reduction, <<n, d>>,
                  Concat([i \in 1..n |->
                            [k \in 1..d |-> Term(weight, scores(i, k), target.v[i][k])]]))

\* self._criterion(input, target).
criterion(weight, reduction, input, target) ==
    IF input.rank = 2
    THEN CrossEntropy2D(weight, reduction, input, target)
    ELSE CrossEntropyND(weight, reduction, input, target)

----------------------------------------------------------------------------
\* The module.

\* The attributes __init__ sets: self._logits_dim and the weight and the
\* reduction of self._criterion.
NoModule == [logits_dim |-> 0, weight |-> NoneTensor, reduction |-> ""]

\* Python truth of the weight argument: None and the empty list are false.
Truthy(weight) == weight.kind # "none" /\ Len(weight.v) > 0

\* A constructor that drops the reduction argument for 'none'.
ConstructUnreduced(logits_ndim, weight, reduction) ==
    LET w == IF Truthy(weight) THEN Tensor("float", 1, weight.v) ELSE weight
    IN  IF w.kind = "list"
        THEN [ok |-> FALSE, err |-> "TypeError", val |-> NoModule]
        ELSE [ok |-> TRUE, err |-> "",
              val |-> [logits_dim |-> logits_ndim, weight |-> w, reduction |-> "none"]]

\* CrossEntropyLoss.__init__(logits_ndim, weight, reduction).  The kernel's
\* constructor registers weight as a buffer, which takes a tensor or None.
Construct(logits_ndim, weight, reduction) ==
    LET w == IF Truthy(weight) THEN Tensor("float", 1, weight.v) ELSE weight
    IN  IF w.kind = "list"
        THEN [ok |-> FALSE, err |-> "TypeError", val |-> NoModule]
        ELSE [ok |-> TRUE, err |-> "",
              val |-> [logits_dim |-> logits_ndim, weight |-> w, reduction |-> reduction]]

\* One invocation of self._criterion: what it returned or raised, and the
\* arguments it got.
Invoke(self, input, target) ==
    [ret |-> criterion(self.weight, self.reduction, input, target),
     kcalls |-> <<[input |-> input, target |-> target]>>]

\* A primitive raised before the kernel was reached.
Raised(err) == [ret |-> Raise(err), kcalls |-> <<>>]

\* A test that never chooses the fallback.
NothingLeftNever(logits_flatten, labels_flatten) == FALSE

\* The test that chooses the fallback: len(labels_flatten) == 0.
NothingLeft(logits_flatten, labels_flatten) == Len(labels_flatten.v) = 0

\* CrossEntropyLoss.forward(logits, labels, loss_mask).
forward(self, logits, labels, loss_mask) ==
    LET logits_flatten == flatten(logits, -2)
        labels_flatten == flatten(labels, -1)
        mask == IF loss_mask.dtype # "bool" THEN GreaterThanHalf(loss_mask) ELSE loss_mask
        loss_mask_flatten == flatten(mask, -1)
        logits_sel == BoolIndex(logits_flatten, loss_mask_flatten)
        labels_sel == BoolIndex(labels_flatten, loss_mask_flatten)
        tail(lg, lb) ==
            IF NothingLeft(lg, lb)
            THEN Invoke(self, logits, argmax(logits))
            ELSE Invoke(self, lg, lb)
    IN  IF loss_mask.kind = "none"
        THEN tail(logits_flatten, labels_flatten)
        ELSE IF ~logits_sel.ok THEN Raised(logits_sel.err)
        ELSE IF ~labels_sel.ok THEN Raised(labels_sel.err)
        ELSE tail(logits_sel.val, labels_sel.val)

\* CrossEntropyLoss.save_to(save_path): pass.
save_to(self) == self

\* A restore_from that puts the constructor's defaults back.
restore_fromDefaults(self) == [logits_dim |-> 2, weight |-> NoneTensor, reduction |-> "mean"]

\* CrossEntropyLoss.restore_from(restore_path): pass.
restore_from(self) == self

----------------------------------------------------------------------------
\* The arguments the model draws.

\* Constructor arguments: weight is None or a list of 0..MaxC per-class
\* weights (class j gets weight j, so that no two classes weigh the same).
WeightArgs == {NoneTensor} \cup {PyList([j \in 1..len |-> j]) : len \in 0..MaxC}

CtorArgs == [logits_ndim : Ranks, weight : WeightArgs, reduction : Reductions]

\* Score of class j (1-based) in flattened row i (1-based) of c classes.
\* "prod" makes every row and every class differ; "diag" is the scaled one-hot
\* rows of the masking example.
LogitPatterns == {"prod", "diag"}

Logit(p, i, j, c) ==
    IF p = "prod" THEN i * j
    ELSE IF j = ((i - 1) % c) + 1 THEN 2 ELSE 0

\* The [b, t] tensor whose row-major entries are flat[1], flat[2], ...
Grid(flat, b, t) == [x \in 1..b |-> [y \in 1..t |-> flat[(x - 1) * t + y]]]

\* Leading shapes <<b, t>> of at most MaxN positions (t = 1 stands for "no
\* middle axis" when the logits have rank 2).
LeadShapes(rank) ==
    {sh \in (1..MaxN) \X (1..MaxN) :
        /\ sh[1] * sh[2] <= MaxN
        /\ rank = 2 => sh[2] = 1}

\* Logits of rank `rank` with leading shape sh and c classes.
LogitsOf(rank, p, sh, c) ==
    IF rank = 2
    THEN Tensor("float", 2, [i \in 1..sh[1] |-> [j \in 1..c |-> Logit(p, i, j, c)]])
    ELSE Tensor("float", 3,
                [x \in 1..sh[1] |-> [y \in 1..sh[2] |->
                    [j \in 1..c |-> Logit(p, (x - 1) * sh[2] + y, j, c)]]])

\* A labels or mask tensor of rank `rank` - 1 with leading shape sh.
LeadTensor(rank, dtype, sh, flat) ==
    IF rank = 2
    THEN Tensor(dtype, 1, [i \in 1..sh[1] |-> flat[i]])
    ELSE Tensor(dtype, 2, Grid(flat, sh[1], sh[2]))

\* How a mask is written down: as booleans, as floats just around the
\* threshold (0.6 / 0.5), as floats away from it (0.9 / 0.4), or as integers
\* (1 / 0).
MaskEncodings == {"bool", "near", "far", "int"}

MaskDtype(enc) ==
    CASE enc = "bool" -> "bool"
      [] enc = "int" -> "int"
      [] OTHER -> "float"

MaskEntry(enc, bit) ==
    CASE enc = "bool" -> bit
      [] enc = "near" -> IF bit THEN 6 ELSE 5
      [] enc = "far" -> IF bit THEN 9 ELSE 4
      [] enc = "int" -> IF bit THEN 10 ELSE 0

\* Labels in [0, c): position i (1-based, row-major) is labelled (i - 1 + s) % c.
RampLabels(n, c, s) == [i \in 1..n |-> (i - 1 + s) % c]

\* Batches that respect the data model: labels in [0, c) shaped like the
\* logits without the class axis, and a mask shaped like the labels.  Every
\* subset of the positions is a mask; the non-boolean masks come with the
\* "prod" logits only.
WellShapedOf(rank, p, sh, c, enc) ==
    {[logits |-> LogitsOf(rank, p, sh, c),
      labels |-> LeadTensor(rank, "long", sh, RampLabels(sh[1] * sh[2], c, s)),
      loss_mask |-> LeadTensor(rank, MaskDtype(enc), sh,
                               [i \in 1..(sh[1] * sh[2]) |-> MaskEntry(enc, bits[i])])] :
        s \in 0..(c - 1),
        bits \in [1..(sh[1] * sh[2]) -> BOOLEAN]}

WellShaped(rank) ==
    UNION {WellShapedOf(rank, q[1], q[2], q[3], q[4]) :
             q \in {q \in LogitPatterns \X LeadShapes(rank) \X (1..MaxC) \X MaskEncodings :
                      q[1] = "prod" \/ q[4] = "bool"}}

\* Leading shapes of labels and masks that need not fit the logits; <<0, 1>>
\* is the empty tensor.
AnyLeadShapes(rank) == LeadShapes(rank) \cup {<<0, 1>>}

\* Batches that break it: labels or a mask of another shape (one of them, or
\* both alike), or a label that is no class.  Labels are all `fill`, the mask
\* is all true or all false.
IllFormedOf(rank, sh, c) ==
    {[logits |-> LogitsOf(rank, "prod", sh, c),
      labels |-> LeadTensor(rank, "long", q[1], [i \in 1..(q[1][1] * q[1][2]) |-> q[3]]),
      loss_mask |-> LeadTensor(rank, "bool", q[2], [i \in 1..(q[2][1] * q[2][2]) |-> q[4]])] :
        q \in {q \in AnyLeadShapes(rank) \X AnyLeadShapes(rank) \X {0, c} \X BOOLEAN :
                 /\ q[1] = sh \/ q[2] = sh \/ q[1] = q[2]
                 /\ q[1] # sh \/ q[2] # sh \/ q[3] = c}}

IllFormed(rank) ==
    UNION {IllFormedOf(rank, q[1], q[2]) : q \in LeadShapes(rank) \X (1..MaxC)}

\* The batches of each rank.
Batches == [rank \in Ranks |-> WellShaped(rank) \cup IllFormed(rank)]

NoArgs == [logits |-> NoneTensor, labels |-> NoneTensor, loss_mask |-> NoneTensor]
NoResult == [ret |-> Raise(""), kcalls |-> <<>>]

----------------------------------------------------------------------------
\* The state machine.

VARIABLES
    ctor,    \* the arguments __init__ was called with
    pc,      \* "ready" after __init__ returned, "raised" after it raised
    self,    \* the module's attributes
    batch,   \* the tensors the caller holds
    args,    \* the arguments of the last forward call (NoArgs before the first)
    result   \* what the last forward call returned or raised, and its kernel calls

vars == <<ctor, pc, self, batch, args, result>>

\* The state after construction, with a batch of the configured rank at hand.
Init ==
    /\ ctor \in CtorArgs
    /\ LET made == Construct(ctor.logits_ndim, ctor.weight, ctor.reduction)
       IN  /\ pc = IF made.ok THEN "ready" ELSE "raised"
           /\ self = made.val
    /\ batch \in Batches[ctor.logits_ndim]
    /\ args = NoArgs
    /\ result = NoResult

\* forward(logits, labels, loss_mask) on the batch.
ForwardMasked ==
    /\ pc = "ready"
    /\ args' = batch
    /\ result' = forward(self, batch.logits, batch.labels, batch.loss_mask)
    /\ UNCHANGED <<ctor, pc, self, batch>>

\* forward(logits, labels): loss_mask keeps its default, None.
ForwardUnmasked ==
    /\ pc = "ready"
    /\ args' = [batch EXCEPT !.loss_mask = NoneTensor]
    /\ result' = forward(self, batch.logits, batch.labels, NoneTensor)
    /\ UNCHANGED <<ctor, pc, self, batch>>

SaveTo ==
    /\ pc = "ready"
    /\ self' = save_to(self)
    /\ UNCHANGED <<ctor, pc, batch, args, result>>

RestoreFrom ==
    /\ pc = "ready"
    /\ self' = restore_from(self)
    /\ UNCHANGED <<ctor, pc, batch, args, result>>

Next == ForwardMasked \/ ForwardUnmasked \/ SaveTo \/ RestoreFrom

Spec == Init /\ [][Next]_vars

----------------------------------------------------------------------------
\* What the claims speak of, read off the arguments of the last call by index
\* arithmetic (not by the primitives forward uses).

Called == args # NoArgs
MaskGiven == args.loss_mask.kind # "none"
Returned == Called /\ result.ret.ok

\* The number of entries of a tensor.
NumEl(t) ==
    LET sh == Shape(t)
    IN  IF t.rank = 1 THEN sh[1] ELSE IF t.rank = 2 THEN sh[1] * sh[2] ELSE sh[1] * sh[2] * sh[3]

\* C, and N: the product of all logits axes but the last.
NumClasses == Shape(args.logits)[args.logits.rank]
NumRows == NumEl(args.logits) \div NumClasses

\* Row i of the logits and entry i of a labels or mask tensor, row-major.
RowAt(i) ==
    IF args.logits.rank = 2 THEN args.logits.v[i]
    ELSE LET t == Shape(args.logits)[2]
         IN  args.logits.v[((i - 1) \div t) + 1][((i - 1) % t) + 1]

EntryAt(x, i) ==
    IF x.rank = 1 THEN x.v[i]
    ELSE LET t == Shape(x)[2]
         IN  x.v[((i - 1) \div t) + 1][((i - 1) % t) + 1]

\* Whether mask entry i counts as true: a boolean as it is, a number (in
\* tenths) when it exceeds 0.5.
TrueAt(i) ==
    LET m == EntryAt(args.loss_mask, i)
    IN  IF args.loss_mask.dtype = "bool" THEN m ELSE m > 5

\* The positions the mask selects, and the k-th of them in increasing order.
Selected == {i \in 1..NumEl(args.loss_mask) : TrueAt(i)}
NthSelected(k) == CHOOSE i \in Selected : Cardinality({j \in Selected : j < i}) = k - 1

\* The flattened sizes of logits rows, labels and mask agree.
SizesAgree ==
    /\ NumEl(args.labels) = NumRows
    /\ MaskGiven => NumEl(args.loss_mask) = NumRows

\* The shapes fit: labels like the logits without the class axis, the mask
\* like the labels.
LeadShape == IF args.logits.rank = 2 THEN <<Shape(args.logits)[1]>>
             ELSE <<Shape(args.logits)[1], Shape(args.logits)[2]>>
ShapesFit ==
    /\ Shape(args.labels) = LeadShape
    /\ MaskGiven => Shape(args.loss_mask) = LeadShape

LabelsInRange == \A i \in 1..NumEl(args.labels) : EntryAt(args.labels, i) \in 0..(NumClasses - 1)

\* The class weights fit the classes of the logits (or there are none).
WeightFits == self.weight.kind = "none" \/ Len(self.weight.v) = NumClasses

\* The number of labelled positions left after masking.
Remaining == IF MaskGiven THEN Cardinality(Selected) ELSE NumEl(args.labels)

\* A term ln(SUM_j exp(d[j])) is 0 exactly when the sum is 1.  The entry of the
\* target class is d = 0 and contributes 1, every other entry contributes more
\* than 0: the term is 0 iff the target class is the only class, and it is
\* positive otherwise.
TermIsZero(t) == Len(t.d) = 1

\* An unweighted sum or mean of terms, none of them negative, is 0 iff every
\* term is 0.
LossIsZero(loss) == \A k \in 1..Len(loss.terms) : TermIsZero(loss.terms[k])

----------------------------------------------------------------------------
\* C1.  A call with a mask that has at least one true entry (sizes agreeing)
\* gets the configured cross-entropy reduction of exactly the (row, label)
\* pairs whose mask entry is true, in their original order; the other pairs
\* contribute nothing.
C1_Expected ==
    LET n == Cardinality(Selected)
    IN  criterion(self.weight, self.reduction,
                  Tensor("float", 2, [k \in 1..n |-> RowAt(NthSelected(k))]),
                  Tensor("long", 1, [k \in 1..n |-> EntryAt(args.labels, NthSelected(k))]))

C1_MaskedLossIsLossOfSelectedPairs ==
    (Called /\ MaskGiven /\ SizesAgree /\ Selected # {}) => result.ret = C1_Expected

\* The masking example: some pairs selected, some not, and a loss returned
\* that has one term per selected pair.
C1_Witness ==
    /\ Returned /\ MaskGiven /\ SizesAgree
    /\ NumClasses >= 2
    /\ Cardinality(Selected) >= 2
    /\ Cardinality(Selected) < NumRows
    /\ ~(1 \in Selected)
    /\ Len(result.ret.val.terms) = Cardinality(Selected)

----------------------------------------------------------------------------
\* The fallback call: the kernel is invoked once, on the logits as they were
\* passed and on a target that names, for every row, a class of maximal score.
FallbackOnArgMax ==
    /\ Len(result.kcalls) = 1
    /\ result.kcalls[1].input = args.logits
    /\ result.kcalls[1].target.rank = args.logits.rank - 1
    /\ NumEl(result.kcalls[1].target) = NumRows
    /\ \A i \in 1..NumRows :
         LET y == EntryAt(result.kcalls[1].target, i)
         IN  /\ y \in 0..(NumClasses - 1)
             /\ \A j \in 1..NumClasses : RowAt(i)[j] <= RowAt(i)[y + 1]

AllFalseMask == MaskGiven /\ Selected = {}

C3_EmptySelectionNeverRaises ==
    (Called /\ ShapesFit /\ WeightFits /\ AllFalseMask) => Returned

----------------------------------------------------------------------------
\* The mask of the last call, coerced by the rule "more than 0.5 is true".
C4_BoolMask ==
    Tensor("bool", args.loss_mask.rank,
           IF args.loss_mask.rank = 1
           THEN [i \in 1..Len(args.loss_mask.v) |-> args.loss_mask.v[i] > 5]
           ELSE [i \in 1..Len(args.loss_mask.v) |->
                    [k \in 1..Len(args.loss_mask.v[i]) |-> args.loss_mask.v[i][k] > 5]])

\* C4.  A call with a mask that is not boolean does what the call with the mask
\* coerced by "value > 0.5" does (0.5 itself is false, an integer 1 true); a
\* boolean mask keeps exactly its true entries.
C4_NumericMaskActsAsCoercedMask ==
    /\ (Called /\ MaskGiven /\ args.loss_mask.dtype # "bool")
          => result = forward(self, args.logits, args.labels, C4_BoolMask)
    /\ (Returned /\ MaskGiven /\ args.loss_mask.dtype = "bool" /\ Selected # {})
          => Len(result.kcalls[1].input.v)
               = Cardinality({i \in 1..NumEl(args.loss_mask) : EntryAt(args.loss_mask, i) = TRUE})

\* A float mask with an entry of exactly 0.5 and an entry above it: the call
\* returned the loss of the entries above.
C4_Witness ==
    /\ Returned /\ MaskGiven /\ args.loss_mask.dtype = "float"
    /\ \E i, k \in 1..NumEl(args.loss_mask) :
          EntryAt(args.loss_mask, i) = 5 /\ EntryAt(args.loss_mask, k) = 6
    /\ Len(result.ret.val.terms)
         = Cardinality({i \in 1..NumEl(args.loss_mask) : EntryAt(args.loss_mask, i) = 6})

\* C5 as claimed: a call whose flattened sizes disagree returns no loss.
C5_SizeMismatchRaises == (Called /\ ~SizesAgree) => ~result.ret.ok

----------------------------------------------------------------------------
\* C6.  For logits_ndim = 3 and no mask, logits [B, T, C] with labels [B, T]
\* give what the kernel gives on the logits flattened by hand to [B*T, C] and
\* the labels flattened by hand to [B*T], row-major both.
C6_Rank3EqualsFlattenedByHand ==
    (Called /\ self.logits_dim = 3 /\ args.logits.rank = 3 /\ ~MaskGiven /\ ShapesFit)
    => result.ret = criterion(self.weight, self.reduction,
                              Tensor("float", 2, [i \in 1..NumRows |-> RowAt(i)]),
                              Tensor("long", 1, [i \in 1..NumRows |-> EntryAt(args.labels, i)]))

\* A [2, 2, C] call without mask that returned a loss of four terms.
C6_Witness ==
    /\ Returned /\ self.logits_dim = 3 /\ ~MaskGiven /\ ShapesFit
    /\ Shape(args.logits)[1] = 2 /\ Shape(args.logits)[2] = 2 /\ NumClasses >= 2
    /\ Len(result.ret.val.terms) = 4

\* C7.  Once constructed, no operation changes the stored configuration, and a
\* forward call with the arguments of the call before it gives the same
\* result, whatever came in between.
C7_ConfigurationIsFrozen ==
    [][pc = "ready"
         => /\ self' = self
            /\ (Called /\ args' = args) => result' = result]_vars

\* A failed call on a weighted module that still has the weights it was given.
C7_Witness ==
    /\ Called /\ ~result.ret.ok
    /\ self.weight.kind = "tensor" /\ self.weight.v = ctor.weight.v
    /\ self.reduction = ctor.reduction /\ self.logits_dim = ctor.logits_ndim

----------------------------------------------------------------------------
\* C8 as claimed: construction succeeds whatever the weight, a non-empty weight
\* is stored, an absent or empty one means no weighting, and a stored weight
\* of the wrong length makes every forward call fail.
C8_ConstructionAcceptsAnyWeight ==
    /\ pc = "ready"
    /\ self.weight = IF Truthy(ctor.weight) THEN Tensor("float", 1, ctor.weight.v)
                     ELSE NoneTensor
    /\ (Called /\ ~WeightFits) => ~result.ret.ok

\* C9.  Logits [B, C] with labels [B] in [0, C) give a single scalar when the
\* reduction is mean or sum (the weights, if any, being one per class):
\* without mask, with a mask that selects some entries, with one that selects
\* none.
C9_MeanAndSumReturnScalar ==
    (/\ Called /\ args.logits.rank = 2 /\ ShapesFit /\ LabelsInRange /\ WeightFits
     /\ ctor.reduction \in {"mean", "sum"})
    => (Returned /\ result.ret.val.shape = <<>>)

\* The fallback path of a weighted sum returned a scalar.
C9_Witness ==
    /\ Returned /\ args.logits.rank = 2 /\ ShapesFit /\ LabelsInRange
    /\ AllFalseMask /\ NumRows >= 2
    /\ ctor.reduction = "sum" /\ self.weight.kind = "tensor"
    /\ result.ret.val.shape = <<>>

\* The k-th position that is left after masking.
C10_Kept(k) == IF MaskGiven THEN NthSelected(k) ELSE k

\* C10.  A forward call that returns has invoked the kernel exactly once.  If
\* no labelled position is left the call is the fallback call, on the logits
\* as passed (never on the empty selection); if one or more are left it is on
\* the flattened logits and labels of the positions left, in order.
C10_OneKernelCallChosenByRemaining ==
    Returned
    => /\ Len(result.kcalls) = 1
       /\ Remaining = 0
            => FallbackOnArgMax /\ Len(result.kcalls[1].input.v) > 0
       /\ Remaining >= 1
            => /\ result.kcalls[1].input.rank = 2
               /\ result.kcalls[1].input.v = [k \in 1..Remaining |-> RowAt(C10_Kept(k))]
               /\ result.kcalls[1].target.rank = 1
               /\ result.kcalls[1].target.v
                    = [k \in 1..Remaining |-> EntryAt(args.labels, C10_Kept(k))]

\* A rank-3 fallback that returned: the kernel got the unflattened logits.
C10_Witness ==
    /\ Returned /\ Remaining = 0 /\ NumRows >= 2
    /\ args.logits.rank = 3
    /\ result.kcalls[1].input.rank = 3

====
